---- MODULE Spec2Model ----
(***************************************************************************)
(* Recall-Aid: the orchestration core of src/src/app.component.ts (the     *)
(* observation loop and the emergency escalation protocol) and of          *)
(* src/src/services/gemini.service.ts (the inference gateway: task queue,  *)
(* concurrency cap, rate-limit backoff, observation cache, fallback).      *)
(*                                                                         *)
(* The program is single threaded: every action below is one macrotask of  *)
(* the JavaScript event loop (a timer callback, a DOM/voice event, a       *)
(* network event, the settling of a remote call) run to its next real      *)
(* suspension point, followed by the flush of the Angular effects it made  *)
(* dirty.  Handlers are written as functions from the program state (a     *)
(* record with one field per variable) to the program state, composed in   *)
(* the order in which the code calls them.                                 *)
(***************************************************************************)
EXTENDS Integers, Sequences, FiniteSets, TLC

(* ----------------------------- bounds ---------------------------------- *)
\* observation cycles (processLoop activations) that may be suspended at once
MaxCycles == 2
\* advances of the wall clock in one behaviour
MaxTicks == 2
\* tasks waiting in the gateway queue
MaxQueue == 1
\* pending processQueue retry timeouts that are told apart
MaxRetryTimers == 1

(* ------------------------ program constants ---------------------------- *)
MAX_CONCURRENT_REQUESTS == 2
CACHE_TTL_MS == 60000
STALE_TTL_MS == 300000
BACKOFF_MS == 30000
COUNTDOWN_CAREGIVER == 15
COUNTDOWN_EMERGENCY == 10
\* confidence is kept in hundredths: confusionThreshold = 0.6
CONFUSION_THRESHOLD == 60
MOTION_CACHE_LIMIT == 5
MOTION_HIGH == 80
MED_WINDOW == 15
BASE_INTERVAL == 8000
CRITICAL_INTERVAL == 3000
CRITICAL_WINDOW == 30
IDLE_MINUTES == 5
IDLE_STEP_MS == 5000
MAX_BACKOFF == 22000
MS_PER_MINUTE == 60000
LOW_BATTERY == 20

\* a timer handle that names no live timer: null, or the id of a single-shot
\* timer that has fired.  The runtime never reuses an id and the code only
\* tests a handle before passing it to clearTimeout/clearInterval, which do
\* nothing for null and for a spent id alike, so the two are not told apart
Null == 0

VARIABLES
  \* ---- app.component.ts
  isActive, isLoopPaused, isPrivacyMode, isSafeMode,
  emergencyLevel, emergencyCountdown, emergencyReason,
  recentCues, cueTimeout, loopTimeout, emergencyTimer,
  cycles,
  \* ---- the browser: live timers per role, the geofence signal
  loopTimers, emergencyTimers, cueTimers, isOutsideGeofence,
  \* ---- Angular effects: the signals each effect read in its last run, and
  \*      the effects waiting to be re-run
  deps, dirty,
  \* ---- gemini.service.ts
  isOnline, backoffUntil, taskQueue, activeRequests, running,
  lastObservation, retryTimers,
  \* ---- wall clock (Date.now()) and the number of times it was advanced
  now, ticks,
  \* ---- the contact actions executed ("CALLING ..." log entries) since the
  \*      last cancelEmergency, per contact
  callsMade,
  \* ---- console.error('Loop Error', e) has been written by processLoop
  loopError,
  \* ---- the geofence effect has raised an alert since the user was last
  \*      inside the safe zone
  geofenceAlerted,
  \* ---- the assistance that triggerReasoning handed to ttsService.speak in
  \*      the step just taken (NoSpeech when it spoke nothing)
  spoken,
  \* ---- a call of a pure function of the services: its arguments and what
  \*      it returned
  args, ret

vars == << isActive, isLoopPaused, isPrivacyMode, isSafeMode,
           emergencyLevel, emergencyCountdown, emergencyReason,
           recentCues, cueTimeout, loopTimeout, emergencyTimer, cycles,
           loopTimers, emergencyTimers, cueTimers, isOutsideGeofence,
           deps, dirty,
           isOnline, backoffUntil, taskQueue, activeRequests, running,
           lastObservation, retryTimers,
           now, ticks, callsMade, loopError, geofenceAlerted, spoken,
           args, ret >>

\* ttsService.speak has not been called
NoSpeech == ""

\* the program state as one record
St ==
  [ isActive |-> isActive, isLoopPaused |-> isLoopPaused,
    isPrivacyMode |-> isPrivacyMode, isSafeMode |-> isSafeMode,
    emergencyLevel |-> emergencyLevel, emergencyCountdown |-> emergencyCountdown,
    emergencyReason |-> emergencyReason,
    recentCues |-> recentCues, cueTimeout |-> cueTimeout,
    loopTimeout |-> loopTimeout, emergencyTimer |-> emergencyTimer,
    cycles |-> cycles,
    loopTimers |-> loopTimers, emergencyTimers |-> emergencyTimers,
    cueTimers |-> cueTimers,
    isOutsideGeofence |-> isOutsideGeofence,
    deps |-> deps, dirty |-> dirty,
    isOnline |-> isOnline, backoffUntil |-> backoffUntil,
    taskQueue |-> taskQueue, activeRequests |-> activeRequests,
    running |-> running, lastObservation |-> lastObservation,
    retryTimers |-> retryTimers,
    now |-> now, ticks |-> ticks,
    callsMade |-> callsMade, loopError |-> loopError,
    geofenceAlerted |-> geofenceAlerted,
    \* nothing has been spoken yet by the handler about to run
    spoken |-> NoSpeech,
    \* signals without a modelled value that the handler has written
    bumped |-> {} ]

Min(a, b) == IF a < b THEN a ELSE b
Max(a, b) == IF a > b THEN a ELSE b

(* ----------------------------- timers ---------------------------------- *)
\* setTimeout/setInterval return an id no live timer has
NewId(ids) == CHOOSE n \in 1..(Cardinality(ids) + 1) : n \notin ids

TimerIds(timers) == { t.id : t \in timers }

\* clearTimeout/clearInterval(handle)
ClearTimer(timers, handle) == { t \in timers : t.id # handle }

\* what a handle holds once the one-shot timer `id` has fired
AfterFire(handle, id) == IF handle = id THEN Null ELSE handle

(* ------------------- loop timer: startLoop / stopLoop ------------------ *)
\* variant: stopping the loop also abandons the cycles in flight
stopLoopAbortsCycles(s) ==
  [s EXCEPT !.loopTimers = IF s.loopTimeout # Null
                             THEN ClearTimer(@, s.loopTimeout) ELSE @,
            !.loopTimeout = Null,
            !.cycles = [c \in DOMAIN @ |-> "idle"]]

\* variant: stopping the loop also stops the timer of the alert
stopLoopStopsAlert(s) ==
  [s EXCEPT !.loopTimers = IF s.loopTimeout # Null
                             THEN ClearTimer(@, s.loopTimeout) ELSE @,
            !.loopTimeout = Null,
            !.emergencyTimers = {},
            !.emergencyTimer = Null]

\* stopLoop(): clears the pending loop timer only
stopLoop(s) ==
  IF s.loopTimeout # Null
    THEN [s EXCEPT !.loopTimers = ClearTimer(@, s.loopTimeout),
                   !.loopTimeout = Null]
    ELSE s

\* the guard of startLoop
LoopAllowed(s) ==
  ~(s.isPrivacyMode \/ s.emergencyLevel > 0 \/ s.isLoopPaused \/ ~s.isActive)

\* the setTimeout(() => this.processLoop(), interval) of startLoop
ArmLoopTimer(s) ==
  LET id == NewId(TimerIds(s.loopTimers))
  IN  [s EXCEPT !.loopTimers = @ \cup {[id |-> id]}, !.loopTimeout = id]

\* variant: startLoop arms a timer without clearing the pending one
startLoopKeepsPending(s) == IF LoopAllowed(s) THEN ArmLoopTimer(s) ELSE s

\* variant: startLoop arms the timer whatever the guards say
startLoopUnguarded(s) == ArmLoopTimer(stopLoop(s))

\* startLoop(): stopLoop(), the guards, then a single-shot timer
startLoop(s) ==
  LET s1 == stopLoop(s)
  IN  IF LoopAllowed(s1) THEN ArmLoopTimer(s1) ELSE s1

(* ------------------------ escalation protocol -------------------------- *)
Contacts == {"caregiver", "911"}
NoCalls == [c \in Contacts |-> 0]

clearEmergencyTimer(s) ==
  IF s.emergencyTimer # Null
    THEN [s EXCEPT !.emergencyTimers = ClearTimer(@, s.emergencyTimer),
                   !.emergencyTimer = Null]
    ELSE s

\* this.emergencyTimer = setTimeout/setInterval(...): the handle is overwritten
ArmEmergencyTimer(s, kind, contact) ==
  LET id == NewId(TimerIds(s.emergencyTimers))
  IN  [s EXCEPT !.emergencyTimers =
                    @ \cup {[id |-> id, kind |-> kind, contact |-> contact]},
                !.emergencyTimer = id]

\* variant: the countdown is started without clearing the pending timer
startCountdownKeepsCheckin(s, contact) ==
  ArmEmergencyTimer(s, "countdown", contact)

startCountdown(s, contact) ==
  ArmEmergencyTimer(clearEmergencyTimer(s), "countdown", contact)

\* the branch of triggerEmergency taken once the level has been raised
EnterLevel(s, level) ==
  CASE level = 1 -> ArmEmergencyTimer(s, "checkin", "none")
    [] level = 2 ->
         startCountdown([s EXCEPT !.emergencyCountdown = COUNTDOWN_CAREGIVER],
                        "caregiver")
    [] level = 3 ->
         startCountdown([s EXCEPT !.emergencyCountdown = COUNTDOWN_EMERGENCY],
                        "911")

\* variant: an escalation is refused only at the very level it asks for
EscalationRefusedAtSameLevel(s, level) == s.emergencyLevel = level

\* variant: an equal-level escalation is let through
EscalationRefusedBelow(s, level) == s.emergencyLevel > level

\* the monotonic guard of triggerEmergency
EscalationRefused(s, level) == s.emergencyLevel >= level

\* variant: an escalation that leaves the loop timer pending
triggerEmergencyKeepsLoop(s, level, reason) ==
  IF EscalationRefused(s, level)
    THEN s
    ELSE EnterLevel([s EXCEPT !.emergencyLevel = level,
                              !.emergencyReason = reason],
                    level)

triggerEmergency(s, level, reason) ==
  IF EscalationRefused(s, level)
    THEN s
    ELSE EnterLevel(stopLoop([s EXCEPT !.emergencyLevel = level,
                                       !.emergencyReason = reason]),
                    level)

\* variant: the cancellation forgets the handle without clearing the timer
cancelEmergencyKeepsTimer(s) ==
  startLoop([s EXCEPT !.emergencyTimer = Null,
                      !.emergencyLevel = 0,
                      !.emergencyReason = "",
                      !.recentCues = {},
                      !.callsMade = NoCalls])

\* variant: the cancellation does not resume the loop
cancelEmergencyNoResume(s) ==
  [clearEmergencyTimer(s) EXCEPT !.emergencyLevel = 0,
                                 !.emergencyReason = "",
                                 !.recentCues = {},
                                 !.callsMade = NoCalls]

cancelEmergency(s) ==
  startLoop([clearEmergencyTimer(s) EXCEPT !.emergencyLevel = 0,
                                           !.emergencyReason = "",
                                           !.recentCues = {},
                                           !.callsMade = NoCalls])

\* variant: the contact action leaves the countdown interval running
executeEmergencyCallKeepsInterval(s, contact) ==
  [s EXCEPT !.emergencyCountdown = 0, !.callsMade[contact] = @ + 1]

executeEmergencyCall(s, contact) ==
  [clearEmergencyTimer(s) EXCEPT !.emergencyCountdown = 0,
                                 !.callsMade[contact] = @ + 1]

\* variant: the contact action waits for a tick that finds the countdown at 0
CountdownTickLate(s, contact) ==
  IF s.emergencyCountdown > 0
    THEN [s EXCEPT !.emergencyCountdown = @ - 1]
    ELSE executeEmergencyCall(s, contact)

\* the setInterval callback of startCountdown
CountdownTick(s, contact) ==
  IF s.emergencyCountdown > 1
    THEN [s EXCEPT !.emergencyCountdown = @ - 1]
    ELSE executeEmergencyCall(s, contact)

\* the setTimeout callback armed on entry to level 1
CheckinTimeout(s) ==
  IF s.emergencyLevel = 1 THEN cancelEmergency(s) ELSE s

\* accumulateCues(newCues)
accumulateCues(s, newCues) ==
  LET timers == IF s.cueTimeout # Null THEN ClearTimer(s.cueTimers, s.cueTimeout)
                                       ELSE s.cueTimers
      id == NewId(TimerIds(timers))
  IN  [s EXCEPT !.recentCues = @ \cup newCues,
                !.cueTimers = timers \cup {[id |-> id]},
                !.cueTimeout = id]

(* ------------------------- inference gateway --------------------------- *)
\* ObservationResult: the fields the controller reads (confidence in
\* hundredths); `observation` also tells the results apart
Result(needs, level, conf, privacy, text) ==
  [needsAssistance |-> needs, emergencyLevel |-> level, confidence |-> conf,
   isPrivacyZone |-> privacy, observation |-> text]

\* what the remote model may answer to an observe call
RemoteResults ==
  { Result(FALSE, "NONE", 90, FALSE, "calm scene"),
    Result(TRUE, "SOFT", 90, FALSE, "user is searching"),
    Result(TRUE, "CRITICAL", 90, FALSE, "fall detected"),
    Result(TRUE, "NONE", 90, FALSE, "user hesitates"),
    Result(TRUE, "CRITICAL", 50, FALSE, "possible fall"),
    Result(TRUE, "CRITICAL", 90, TRUE, "fall in bathroom") }

\* the motion scores a capture may come with, and the ways a remote call ends
Scores == {0, 90}
Outcomes == {"ok", "rateLimit", "badPayload", "failure"}

\* LIFE_LOG: the "HH:MM" times of the medication reminders and of the daily
\* routine, as the pair split(':').map(Number) makes of them
medication_reminders == { [h |-> 9, min |-> 0], [h |-> 13, min |-> 0], [h |-> 20, min |-> 0] }
daily_routine == { [h |-> 9, min |-> 0], [h |-> 13, min |-> 0], [h |-> 18, min |-> 0] }

\* h * 60 + min
MinutesOf(e) == e.h * 60 + e.min
Abs(x) == IF x < 0 THEN 0 - x ELSE x

\* medication_reminders.find(...): a reminder within MED_WINDOW minutes of
\* the minute of the day
activeMed(currentMinutes) ==
  \E m \in medication_reminders : Abs(MinutesOf(m) - currentMinutes) <= MED_WINDOW

\* a fallback that raises a SOFT level on a schedule match
runOfflineFallbackAnalysisSoft(score, nearMed) ==
  Result(nearMed, IF nearMed THEN "SOFT" ELSE "NONE", 60, FALSE, "Offline Reminder")

\* a fallback that reports a critical event with high confidence
runOfflineFallbackAnalysisAlarm(score, nearMed) ==
  Result(TRUE, "CRITICAL", 90, FALSE, "System Offline")

\* runOfflineFallbackAnalysis(visualChangeScore); nearMed: the wall clock is
\* within 15 minutes of a medication reminder
runOfflineFallbackAnalysis(score, nearMed) ==
  LET conf0 == IF nearMed THEN 60 ELSE 10
      conf == IF score > MOTION_HIGH THEN Max(conf0, 40) ELSE conf0
      text == IF nearMed THEN "Offline Reminder" ELSE "System Offline"
  IN  Result(nearMed, "NONE", conf, FALSE, text)

NoResult == Result(FALSE, "NONE", 0, FALSE, "")
NoCache == [valid |-> FALSE, result |-> NoResult, timestamp |-> 0]

\* a QueuedTask: kind and owner stand for the execute/resolve/reject closures
Task(kind, owner, audio, score, retryable, nested, at) ==
  [kind |-> kind, owner |-> owner, audio |-> audio, score |-> score,
   retryable |-> retryable, nested |-> nested, timestamp |-> at,
   \* set at dispatch: the task awaits the retry it enqueued; the backoff
   \* deadline was still ahead when it was dispatched; a task enqueued
   \* before it was left in the queue; its age had reached STALE_TTL_MS
   waiting |-> FALSE, inBackoff |-> FALSE, overtook |-> FALSE, stale |-> FALSE]

InBackoff(s) == s.now < s.backoffUntil

addToQueue(s, task) == [s EXCEPT !.taskQueue = Append(@, task)]

\* the tasks the filter of processQueue keeps
Fresh(s, q) == SelectSeq(q, LAMBDA t : s.now - t.timestamp < STALE_TTL_MS)

\* variant: the while loop drains the queue without looking at activeRequests
DispatchUncapped(s) ==
  LET n == Len(s.taskQueue)
      started == [i \in 1..n |->
                    [s.taskQueue[i] EXCEPT !.inBackoff = InBackoff(s),
                                           !.timestamp = 0]]
  IN  [s EXCEPT !.taskQueue = << >>,
                !.running = @ \o started,
                !.activeRequests = @ + n]

\* task.execute() for the queued task at position i, the tasks at the
\* positions `rest` staying queued
Started(s, i, rest) ==
  [s.taskQueue[i] EXCEPT !.inBackoff = InBackoff(s),
                         \* the enqueue time is not read again
                         !.timestamp = 0,
                         !.overtook = \E j \in rest : j < i,
                         !.stale = s.now - s.taskQueue[i].timestamp >= STALE_TTL_MS]

\* variant: the while loop pops the youngest task (pop() for shift())
DispatchYoungestFirst(s) ==
  LET len == Len(s.taskQueue)
      n == Min(Max(MAX_CONCURRENT_REQUESTS - s.activeRequests, 0), len)
      started == [i \in 1..n |-> Started(s, len + 1 - i, 1..(len - n))]
  IN  [s EXCEPT !.taskQueue = SubSeq(@, 1, len - n),
                !.running = @ \o started,
                !.activeRequests = @ + n]

\* the while loop of processQueue: shift and dispatch up to the cap
Dispatch(s) ==
  LET len == Len(s.taskQueue)
      n == Min(Max(MAX_CONCURRENT_REQUESTS - s.activeRequests, 0), len)
      started == [i \in 1..n |-> Started(s, i, (n + 1)..len)]
  IN  [s EXCEPT !.taskQueue = SubSeq(@, n + 1, len),
                !.running = @ \o started,
                !.activeRequests = @ + n]

\* variant: processQueue returns during backoff without the setTimeout
DeferDrainNoTimer(s) == s

\* the deferral of processQueue while the backoff deadline is ahead
DeferDrain(s) ==
  [s EXCEPT !.retryTimers = Min(@ + 1, MaxRetryTimers)]

\* variant: processQueue without the check of the backoff deadline
processQueueIgnoresBackoff(s) ==
  IF ~s.isOnline THEN s
  ELSE Dispatch([s EXCEPT !.taskQueue = Fresh(s, @)])

\* variant: processQueue without the filter of the stale tasks
processQueueKeepsStale(s) ==
  IF ~s.isOnline THEN s
  ELSE IF InBackoff(s) THEN DeferDrain(s)
  ELSE Dispatch(s)

\* variant: processQueue without the check of the connectivity
processQueueIgnoresOffline(s) ==
  IF InBackoff(s) THEN DeferDrain(s)
  ELSE Dispatch([s EXCEPT !.taskQueue = Fresh(s, @)])

processQueue(s) ==
  IF ~s.isOnline THEN s
  ELSE IF InBackoff(s) THEN DeferDrain(s)
  ELSE Dispatch([s EXCEPT !.taskQueue = Fresh(s, @)])

\* enqueue rejects at once ('Offline: Task dropped')
EnqueueRejects(s, task) == ~s.isOnline /\ ~task.retryable

enqueue(s, task) ==
  IF ~s.isOnline
    THEN IF task.retryable THEN addToQueue(s, task) ELSE s
    ELSE processQueue(addToQueue(s, task))

handleError(s, outcome) ==
  IF outcome = "rateLimit"
    THEN [s EXCEPT !.backoffUntil = s.now + BACKOFF_MS]
    ELSE s

\* a call into the gateway: the state it leaves, and the value it returned
\* at once (done) or the fact that the caller is suspended on a queued task
Returned(s, val) == [st |-> s, done |-> TRUE, val |-> val]
Suspended(s) == [st |-> s, done |-> FALSE, val |-> NoResult]

CacheHit(s, audio, score) ==
  /\ ~audio
  /\ score < MOTION_CACHE_LIMIT
  /\ s.lastObservation.valid
  /\ s.now - s.lastObservation.timestamp < CACHE_TTL_MS

\* variant: observeEnvironment without the offline / backoff return
observeEnvironmentAlwaysEnqueues(s, owner, audio, score, nearMed, nested) ==
  IF CacheHit(s, audio, score)
    THEN Returned(s, s.lastObservation.result)
  ELSE Suspended(enqueue(s, Task("observe", owner, audio, score, FALSE,
                                 nested, s.now)))

\* observeEnvironment up to its enqueue
observeEnvironment(s, owner, audio, score, nearMed, nested) ==
  IF ~s.isOnline \/ InBackoff(s)
    THEN Returned(s, runOfflineFallbackAnalysis(score, nearMed))
  ELSE IF CacheHit(s, audio, score)
    THEN Returned(s, s.lastObservation.result)
  ELSE Suspended(enqueue(s, Task("observe", owner, audio, score, FALSE,
                                 nested, s.now)))

\* reasonAndAssist up to its enqueue; the canned answer stands for the text
ReasonCanned == "I need a moment to rest my circuits (Rate Limit)."
\* the nudge of a reasoning call, here the text used when the reply is empty
RemoteNudge == "I'm here if you need help."
reasonAndAssist(s, owner) ==
  IF InBackoff(s)
    THEN [st |-> s, done |-> TRUE]
    ELSE [st |-> enqueue(s, Task("reason", owner, FALSE, 0, TRUE, FALSE, s.now)),
          done |-> FALSE]

(* --------------------- observation cycle controller -------------------- *)
Slots == 1..MaxCycles
\* owners of gateway tasks besides the cycles: a voice question, a report
QueryOwner == 0
ReportOwner == -1

FreeSlots(s) == { c \in Slots : s.cycles[c] = "idle" }
InFlight(s) == { c \in Slots : s.cycles[c] # "idle" }

\* variant: the cycle ends without the finally block re-arming the loop
FinishCycleNoRearm(s, c) == [s EXCEPT !.cycles[c] = "idle"]

\* the finally block of processLoop
FinishCycle(s, c) == startLoop([s EXCEPT !.cycles[c] = "idle"])

\* the catch block of processLoop, followed by the finally block
CatchLoopError(s, c) == FinishCycle([s EXCEPT !.loopError = TRUE], c)

\* processLoop from the timer callback to the first await
processLoop(s) ==
  IF ~s.isActive \/ s.isLoopPaused \/ s.emergencyLevel > 0
    THEN s
    ELSE LET c == CHOOSE x \in FreeSlots(s) : \A y \in FreeSlots(s) : x <= y
         IN  [s EXCEPT !.cycles[c] = "capture"]

togglePrivacy(s) == [s EXCEPT !.isPrivacyMode = ~@]

\* variant: the camera failure is not reported
reportCameraErrorIgnored(s) == s

\* healthService.reportError('camera'): evaluateSystemState enters safe mode
reportCameraError(s) == [s EXCEPT !.isSafeMode = TRUE]

\* the mode triggerReasoning is called with on behalf of `owner`
ModeOf(owner) == IF owner \in Slots THEN "observation" ELSE "question"

\* triggerReasoning once reasonAndAssist has answered: the assistance is
\* kept and spoken for a question, or when it is longer than 5 characters
speakAssistance(s, owner, assistance) ==
  IF ModeOf(owner) = "question" \/ Len(assistance) > 5
    THEN [s EXCEPT !.spoken = assistance]
    ELSE s

\* triggerReasoning(frame, context, mode) up to the await of the remote call
triggerReasoning(s, owner) ==
  LET r == reasonAndAssist(s, owner)
  IN  IF r.done
        THEN [st |-> speakAssistance(r.st, owner, ReasonCanned), done |-> TRUE]
        ELSE r

\* triggerReasoning(frame, context, 'observation') awaited by the cycle
CycleReasoning(s, c) ==
  LET r == triggerReasoning(s, c)
  IN  IF r.done THEN FinishCycle(r.st, c)
                ELSE [r.st EXCEPT !.cycles[c] = "reason"]

\* variant: a confidence on the threshold already counts
AssistAtThreshold(result) ==
  result.needsAssistance /\ result.confidence >= CONFUSION_THRESHOLD

Assist(result) ==
  result.needsAssistance /\ result.confidence > CONFUSION_THRESHOLD

\* processLoop step 3 (evaluate and act) and what follows it
Evaluate(s, c, result) ==
  LET s1 == IF result.isPrivacyZone /\ ~s.isPrivacyMode
              THEN togglePrivacy(s) ELSE s
  IN  IF ~Assist(result) THEN FinishCycle(s1, c)
      ELSE IF result.emergencyLevel = "CRITICAL"
        THEN FinishCycle(triggerEmergency(s1, 3, result.observation), c)
      ELSE IF result.emergencyLevel = "SOFT"
        THEN FinishCycle(triggerEmergency(s1, 1, result.observation), c)
      ELSE CycleReasoning(s1, c)

\* processLoop once frame and audio segment have been awaited
AfterCapture(s, c, frameOk, audio, score, nearMed, threw) ==
  IF threw THEN CatchLoopError(s, c)
  ELSE IF ~frameOk /\ ~s.isSafeMode
    THEN FinishCycle(startLoop(reportCameraError(s)), c)
  ELSE LET visualScore == IF s.isSafeMode THEN 0 ELSE score
           r == observeEnvironment(s, c, audio, visualScore, nearMed, FALSE)
       IN  IF r.done THEN Evaluate(r.st, c, r.val)
                     ELSE [r.st EXCEPT !.cycles[c] = "observe"]

\* processLoop resumed with the result of observeEnvironment; threw: the
\* result cannot be read (result.confidence.toFixed throws)
AfterObserve(s, c, result, threw) ==
  IF threw THEN CatchLoopError(s, c) ELSE Evaluate(s, c, result)

\* the continuation of whoever awaits the gateway promise of `owner`
Resume(s, owner, kind, result, threw) ==
  IF owner \in Slots
    THEN IF kind = "observe" THEN AfterObserve(s, owner, result, threw)
                             ELSE FinishCycle(s, owner)
    ELSE s

(* --------------------- settling of a dispatched task ------------------- *)
RemoveAt(q, i) == SubSeq(q, 1, i - 1) \o SubSeq(q, i + 1, Len(q))

\* the .finally of processQueue for the running task i
ReleaseSlot(s, i) ==
  processQueue([s EXCEPT !.running = RemoveAt(@, i),
                         !.activeRequests = @ - 1])

\* index of the task that awaits the retry it enqueued for `owner`
OuterOf(s, owner) ==
  { j \in 1..Len(s.running) : s.running[j].waiting /\ s.running[j].owner = owner }

\* a task's promise resolves with `result`: its slot is released, and so is
\* the slot of the task that awaited it as its retry; then the owner resumes
Settle(s, i, result, threw) ==
  LET t == s.running[i]
      s1 == ReleaseSlot(s, i)
      outer == OuterOf(s1, t.owner)
      s2 == IF t.nested /\ outer # {}
              THEN ReleaseSlot(s1, CHOOSE j \in outer : TRUE)
              ELSE s1
  IN  Resume(s2, t.owner, t.kind, result, threw)

\* variant: the retry keeps the audio segment, so that it can fail and be
\* retried in its turn
ObserveFailedKeepsAudio(s, i, outcome, nearMed) ==
  LET t == s.running[i]
  IN  IF t.audio /\ outcome = "badPayload"
        THEN LET r == observeEnvironment(s, t.owner, TRUE, t.score, nearMed, TRUE)
             IN  IF r.done THEN Settle(r.st, i, r.val, FALSE)
                           ELSE [r.st EXCEPT !.running[i].waiting = TRUE]
        ELSE Settle(s, i, runOfflineFallbackAnalysis(t.score, nearMed), FALSE)

\* the catch block of the observe task (handleError has run)
\* variant: the fallback answer of a failed call is kept in the cache
ObserveFailedCachesFallback(s, i, outcome, nearMed) ==
  LET t == s.running[i]
      fb == runOfflineFallbackAnalysis(t.score, nearMed)
  IN  Settle([s EXCEPT !.lastObservation =
                [valid |-> TRUE, result |-> fb, timestamp |-> s.now]],
             i, fb, FALSE)

ObserveFailed(s, i, outcome, nearMed) ==
  LET t == s.running[i]
  IN  IF t.audio /\ outcome = "badPayload"
        THEN LET r == observeEnvironment(s, t.owner, FALSE, t.score, nearMed, TRUE)
             IN  IF r.done THEN Settle(r.st, i, r.val, FALSE)
                           ELSE [r.st EXCEPT !.running[i].waiting = TRUE]
        ELSE Settle(s, i, runOfflineFallbackAnalysis(t.score, nearMed), FALSE)

\* the reason task t has settled: its nudge is handed to triggerReasoning,
\* a failure is logged as 'Reasoner Busy/Error' and nothing is spoken
ReasonSettled(s, t, outcome) ==
  IF t.kind = "reason" /\ outcome = "ok"
    THEN speakAssistance(s, t.owner, RemoteNudge)
    ELSE s

\* the remote call of the running task i ends with `outcome`
RemoteReturns(s, i, outcome, result, nearMed, threw) ==
  LET t == s.running[i]
  IN  IF t.kind = "observe"
        THEN IF outcome = "ok"
               THEN Settle([s EXCEPT !.lastObservation =
                              [valid |-> TRUE, result |-> result,
                               timestamp |-> s.now]],
                           i, result, threw)
               ELSE ObserveFailed(handleError(s, outcome), i, outcome, nearMed)
        ELSE Settle(ReasonSettled(handleError(s, outcome), t, outcome),
                    i, NoResult, FALSE)

(* ---------------------------- Angular effects -------------------------- *)
Effects == {"active", "geofence"}
\* signals whose value the model keeps; "distanceFromHome" and
\* "schedulerSignals" (networkStatus, isLowPowerMode) are only known to change
SigVal(s, n) ==
  CASE n = "isActive" -> s.isActive
    [] n = "isPrivacyMode" -> s.isPrivacyMode
    [] n = "isSafeMode" -> s.isSafeMode
    [] n = "isLoopPaused" -> s.isLoopPaused
    [] n = "isOutsideGeofence" -> s.isOutsideGeofence
    [] OTHER -> FALSE

\* the level as the effects see it: every change of it is a new version
LevelChanged(s0, s) == s0.emergencyLevel # s.emergencyLevel

Changed(s0, s, n) ==
  \/ n \in s.bumped
  \/ SigVal(s0, n) # SigVal(s, n)
  \/ n = "emergencyLevel" /\ LevelChanged(s0, s)

\* the effects a handler that led from s0 to s has made dirty
Notified(s0, s, among) ==
  { e \in among : \E n \in s.deps[e] : Changed(s0, s, n) }

\* effect(() => { if (this.isActive()) {...} else {...} }): the signals read
\* by the run that starts in s (isLoopPaused is read after it is written)
ActiveEffectReads(s) ==
  IF ~s.isActive THEN {"isActive"}
  ELSE {"isActive", "isPrivacyMode"}
       \cup (IF s.isPrivacyMode THEN {}
             ELSE {"isSafeMode", "emergencyLevel"}
                  \cup (IF s.emergencyLevel > 0 THEN {}
                        ELSE {"isLoopPaused", "schedulerSignals"}))

ActiveEffect(s) ==
  LET s1 == IF s.isActive
              THEN startLoop([s EXCEPT !.isLoopPaused = FALSE])
              ELSE stopLoop(s)
  IN  [s1 EXCEPT !.deps["active"] = ActiveEffectReads(s)]

GeofenceEffectReads(s) ==
  IF ~s.isActive THEN {"isActive"}
  ELSE {"isActive", "isOutsideGeofence"}
       \cup (IF s.isOutsideGeofence
               THEN {"distanceFromHome", "emergencyLevel"} ELSE {})

GeofenceTriggers(s) ==
  s.isActive /\ s.isOutsideGeofence /\ s.emergencyLevel = 0

GeofenceEffect(s) ==
  LET s1 == IF GeofenceTriggers(s)
              THEN [triggerEmergency(s, 1, "User left safe zone")
                      EXCEPT !.geofenceAlerted = TRUE]
              ELSE s
  IN  [s1 EXCEPT !.deps["geofence"] = GeofenceEffectReads(s)]

\* the effect that runs next: effects are flushed in the order of creation
NextEffect(s) == IF "active" \in s.dirty THEN "active" ELSE "geofence"

\* one effect of the flush; an effect that wrote a signal after reading it
\* (the geofence effect raising the level) is dirty again
RunEffectOn(s, e) ==
  LET s0 == [s EXCEPT !.dirty = @ \ {e}]
      s1 == IF e = "active" THEN ActiveEffect(s0) ELSE GeofenceEffect(s0)
      again == IF e = "geofence" /\ LevelChanged(s0, s1) THEN {e} ELSE {}
  IN  [s1 EXCEPT !.dirty = @ \cup again \cup Notified(s0, s1, Effects \ {e})]

(* ------------------------------ commit --------------------------------- *)
\* the state a step leaves
Becomes(s) ==
  /\ isActive' = s.isActive
  /\ isLoopPaused' = s.isLoopPaused
  /\ isPrivacyMode' = s.isPrivacyMode
  /\ isSafeMode' = s.isSafeMode
  /\ emergencyLevel' = s.emergencyLevel
  /\ emergencyCountdown' = s.emergencyCountdown
  /\ emergencyReason' = s.emergencyReason
  /\ recentCues' = s.recentCues
  /\ cueTimeout' = s.cueTimeout
  /\ loopTimeout' = s.loopTimeout
  /\ emergencyTimer' = s.emergencyTimer
  /\ cycles' = s.cycles
  /\ loopTimers' = s.loopTimers
  /\ emergencyTimers' = s.emergencyTimers
  /\ cueTimers' = s.cueTimers
  /\ isOutsideGeofence' = s.isOutsideGeofence
  /\ deps' = s.deps
  /\ dirty' = s.dirty
  /\ isOnline' = s.isOnline
  /\ backoffUntil' = s.backoffUntil
  /\ taskQueue' = s.taskQueue
  /\ activeRequests' = s.activeRequests
  /\ running' = s.running
  /\ lastObservation' = s.lastObservation
  /\ retryTimers' = s.retryTimers
  /\ now' = s.now
  /\ ticks' = s.ticks
  /\ callsMade' = s.callsMade
  /\ loopError' = s.loopError
  /\ geofenceAlerted' = s.geofenceAlerted
  /\ spoken' = s.spoken
  /\ UNCHANGED << args, ret >>

\* a handler (a macrotask) ran from St to s: the effects whose signals it
\* changed are scheduled
Handler(s) == Becomes([s EXCEPT !.dirty = @ \cup Notified(St, s, Effects)])

\* handlers run between flushes: no macrotask starts while an effect is due
Idle == dirty = {}

(* ------------------------------ actions -------------------------------- *)
\* no call of a pure function is under way
NoCall == [fn |-> "none"]

\* the state after construction of the component and of its services
InitProgram ==
  /\ isActive = FALSE /\ isLoopPaused = FALSE
  /\ isPrivacyMode = FALSE /\ isSafeMode = FALSE
  /\ emergencyLevel = 0 /\ emergencyCountdown = 10 /\ emergencyReason = ""
  /\ recentCues = {} /\ cueTimeout = Null
  /\ loopTimeout = Null /\ emergencyTimer = Null
  /\ cycles = [c \in Slots |-> "idle"]
  /\ loopTimers = {} /\ emergencyTimers = {} /\ cueTimers = {}
  /\ isOutsideGeofence = FALSE
  \* every effect has run once, with the system inactive
  /\ deps = [e \in Effects |-> {"isActive"}]
  /\ dirty = {}
  /\ isOnline = TRUE /\ backoffUntil = 0
  /\ taskQueue = << >> /\ activeRequests = 0 /\ running = << >>
  /\ lastObservation = NoCache
  /\ retryTimers = 0
  /\ now = 0 /\ ticks = 0
  /\ callsMade = NoCalls
  /\ loopError = FALSE
  /\ geofenceAlerted = FALSE
  /\ spoken = NoSpeech

Init == InitProgram /\ args = NoCall /\ ret = NoCall

\* the flush of the effects
RunEffect == dirty # {} /\ Becomes(RunEffectOn(St, NextEffect(St)))

\* ---- host commands and voice commands
ToggleSystem ==
  /\ Idle
  /\ Handler(IF emergencyLevel > 0 THEN cancelEmergency(St)
                                   ELSE [St EXCEPT !.isActive = ~@])

TogglePrivacy == Idle /\ Handler(togglePrivacy(St))

\* escalate(level, reason) as a command of the host
HostReasons == {"host request"}
Escalate(level, reason) == Idle /\ Handler(triggerEmergency(St, level, reason))

CancelEmergency == Idle /\ Handler(cancelEmergency(St))

\* the command a transcript is classified as, executed by the voice effect;
\* help: the transcript contains 'help', which is also accumulated as a cue
VoiceCues(s, help) == IF help THEN accumulateCues(s, {"audio"}) ELSE s

VoiceEmergency(help) ==
  /\ Idle
  /\ Handler(VoiceCues(triggerEmergency(St, 2, "User requested help via voice"),
                       help))

VoiceActivate == Idle /\ Handler([St EXCEPT !.isActive = TRUE])

VoiceDeactivate == Idle /\ Handler([St EXCEPT !.isActive = FALSE])

VoicePause ==
  /\ Idle
  /\ Handler(IF isActive /\ ~isLoopPaused
               THEN [stopLoop(St) EXCEPT !.isLoopPaused = TRUE]
               ELSE St)

VoiceResume ==
  /\ Idle
  /\ Handler(IF isActive /\ isLoopPaused
               THEN startLoop([St EXCEPT !.isLoopPaused = FALSE])
               ELSE St)

\* a QUERY transcript: the safe words cancel a level 1 alert; otherwise a
\* question is put to the reasoner once a frame has been captured
VoiceQueryOn(s, affirmative, frameOk) ==
  IF s.emergencyLevel = 1 /\ affirmative THEN cancelEmergency(s)
  ELSE IF ~s.isActive \/ s.isPrivacyMode THEN s
  ELSE IF ~s.isSafeMode /\ ~frameOk THEN s
  ELSE triggerReasoning(s, QueryOwner).st

VoiceQuery(affirmative, frameOk) ==
  /\ Idle
  /\ Len(taskQueue) < MaxQueue
  /\ Handler(VoiceQueryOn(St, affirmative, frameOk))

\* generateReport() -> generateActivityReport(logs)
generateActivityReport(s) ==
  IF ~s.isOnline \/ InBackoff(s) THEN s
  ELSE enqueue(s, Task("report", ReportOwner, FALSE, 0, TRUE, FALSE, s.now))

GenerateReport ==
  /\ Idle
  /\ Len(taskQueue) < MaxQueue
  /\ Handler(generateActivityReport(St))

\* ---- the browser
\* visibilitychange: the page is hidden, or shown again.  Whether the page is
\* hidden is not kept: Foreground begins with the stopLoop() that Background
\* is, so the states reached are those of the alternating sequence
Background == Idle /\ Handler(stopLoop(St))

Foreground ==
  /\ Idle
  /\ Handler(IF isActive /\ ~isPrivacyMode /\ ~isSafeMode
               THEN startLoop(St) ELSE St)

\* locationService.updatePosition: the distance changes, and the geofence flag
\* with it when the hysteresis band is crossed
PositionUpdate(outside) ==
  /\ Idle
  /\ Handler([St EXCEPT !.isOutsideGeofence = outside,
                        !.geofenceAlerted = @ /\ outside,
                        !.bumped = @ \cup {"distanceFromHome"}])

\* the camera recovers (onloadedmetadata, self test) or fails (image error)
CameraRecovery == Idle /\ isSafeMode /\ Handler([St EXCEPT !.isSafeMode = FALSE])
CameraError == Idle /\ ~isSafeMode /\ Handler(reportCameraError(St))

\* battery or connection change events of the scheduler
SchedulerSignal ==
  /\ Idle
  /\ Handler([St EXCEPT !.bumped = @ \cup {"schedulerSignals"}])

GoOffline ==
  /\ Idle /\ isOnline
  /\ Handler([St EXCEPT !.isOnline = FALSE,
                        !.bumped = @ \cup {"schedulerSignals"}])

GoOnline ==
  /\ Idle /\ ~isOnline
  /\ Handler(processQueue([St EXCEPT !.isOnline = TRUE,
                                     !.bumped = @ \cup {"schedulerSignals"}]))

TimeSteps == {BACKOFF_MS, STALE_TTL_MS}
Advance(d) ==
  /\ Idle /\ ticks < MaxTicks
  /\ Handler([St EXCEPT !.now = @ + d, !.ticks = @ + 1])

\* ---- timers
LoopTimerFires(t) ==
  /\ Idle
  /\ LET s == [St EXCEPT !.loopTimers = @ \ {t},
                         !.loopTimeout = AfterFire(@, t.id)]
     IN  /\ (~(~s.isActive \/ s.isLoopPaused \/ s.emergencyLevel > 0)
               => FreeSlots(s) # {})
         /\ Handler(processLoop(s))

EmergencyTimerFires(t) ==
  /\ Idle
  /\ IF t.kind = "checkin"
       THEN Handler(CheckinTimeout([St EXCEPT !.emergencyTimers = @ \ {t},
                                              !.emergencyTimer = AfterFire(@, t.id)]))
       ELSE Handler(CountdownTick(St, t.contact))

CueTimerFires(t) ==
  /\ Idle
  /\ Handler([St EXCEPT !.cueTimers = @ \ {t},
                        !.cueTimeout = AfterFire(@, t.id),
                        !.recentCues = {}])

RetryTimerFires ==
  /\ Idle /\ retryTimers > 0
  /\ Handler(processQueue([St EXCEPT !.retryTimers = @ - 1]))

\* ---- the observation cycle and the remote calls
CaptureDone(c, frameOk, audio, score, nearMed, threw) ==
  /\ Idle /\ cycles[c] = "capture"
  /\ Handler(AfterCapture(St, c, frameOk, audio, score, nearMed, threw))

RemoteCallEnds(i, outcome, result, nearMed, threw) ==
  /\ Idle /\ ~running[i].waiting
  /\ Handler(RemoteReturns(St, i, outcome, result, nearMed, threw))

\* ---- the controller: commands, visibility, geofence and timers around the
\* observation cycle, with the remote model answering every call
CycleResults ==
  { r \in RemoteResults :
      r.observation \in {"user hesitates", "user is searching", "fall detected"} }

Commands ==
  \/ RunEffect
  \/ ToggleSystem
  \/ TogglePrivacy
  \/ \E l \in 1..3, r \in HostReasons : Escalate(l, r)
  \/ CancelEmergency
  \/ VoiceActivate
  \/ VoiceDeactivate
  \/ VoicePause
  \/ VoiceResume
  \/ Background
  \/ Foreground
  \/ \E t \in loopTimers : LoopTimerFires(t)
  \/ \E t \in emergencyTimers : EmergencyTimerFires(t)

\* the steps of a cycle; throws: whether a step of the cycle may throw
Cycle(throws) ==
  \/ \E c \in Slots, x \in throws :
        CaptureDone(c, TRUE, FALSE, MOTION_HIGH + 10, FALSE, x)
  \/ \E i \in 1..Len(running), r \in CycleResults, x \in throws :
        RemoteCallEnds(i, "ok", r, FALSE, x)

Next ==
  \/ Commands
  \/ VoiceEmergency(FALSE)
  \/ \E o \in BOOLEAN : PositionUpdate(o)
  \/ Cycle({FALSE})

Spec == Init /\ [][Next]_vars

\* ---- the same controller with the cue window: any transcript may carry the
\* word 'help', and the cue-expiry timer runs
NextTimers ==
  \/ Commands
  \/ \E help \in BOOLEAN : VoiceEmergency(help)
  \/ \E t \in cueTimers : CueTimerFires(t)
  \/ Cycle({FALSE})

SpecTimers == Init /\ [][NextTimers]_vars

\* ---- the controller with cycles any step of which may throw
NextFaults ==
  \/ Commands
  \/ Cycle(BOOLEAN)

SpecFaults == Init /\ [][NextFaults]_vars

\* ---- the gateway under the running loop, spoken questions and report
\* requests, with the network, the clock and every outcome of a remote call
GatewayResults == { r \in RemoteResults : r.observation = "calm scene" }

NextGateway ==
  \/ RunEffect
  \/ VoiceActivate
  \/ VoiceQuery(FALSE, TRUE)
  \/ GenerateReport
  \/ GoOffline
  \/ GoOnline
  \/ \E d \in TimeSteps : Advance(d)
  \/ \E t \in loopTimers : LoopTimerFires(t)
  \/ RetryTimerFires
  \/ \E c \in Slots : CaptureDone(c, TRUE, FALSE, MOTION_HIGH + 10, FALSE, FALSE)
  \/ \E i \in 1..Len(running), o \in Outcomes, r \in GatewayResults :
        RemoteCallEnds(i, o, r, FALSE, FALSE)

SpecGateway == Init /\ [][NextGateway]_vars

(* ------------------------- escalation protocol ------------------------- *)
\* the steps whose handler runs cancelEmergency(): the cancel command, the
\* system toggle during an alert, the check-in timeout at level 1
Cancels ==
  \/ CancelEmergency
  \/ emergencyLevel > 0 /\ ToggleSystem
  \/ \E t \in emergencyTimers :
        t.kind = "checkin" /\ emergencyLevel = 1 /\ EmergencyTimerFires(t)

\* C1: the emergency level never decreases except in a step that runs
\* cancelEmergency, and that step leaves it at 0
C1_LevelMonotonic ==
  [][emergencyLevel' < emergencyLevel => Cancels /\ emergencyLevel' = 0]_vars

\* an alert was raised to level 2, counted one second down and was cancelled
C1_Witness ==
  emergencyLevel = 0 /\ emergencyCountdown = COUNTDOWN_CAREGIVER - 1

Reasons == HostReasons \cup {"User requested help via voice", "User left safe zone"}

\* C2: triggerEmergency(level, reason) with level <= the current level leaves
\* the level, the reason, the countdown value and the emergency timer as
\* they are, whatever the reason passed
C2_EscalateNoOp ==
  \A l \in 1..3, r \in Reasons :
    l <= emergencyLevel =>
      LET s == triggerEmergency(St, l, r)
      IN  /\ s.emergencyLevel = emergencyLevel
          /\ s.emergencyReason = emergencyReason
          /\ s.emergencyCountdown = emergencyCountdown
          /\ s.emergencyTimer = emergencyTimer
          /\ s.emergencyTimers = emergencyTimers

\* a level 2 alert raised by voice whose countdown is running: the host's
\* escalate(2) and escalate(1) arrive with another reason
C2_Witness ==
  /\ emergencyLevel = 2
  /\ emergencyReason = "User requested help via voice"
  /\ emergencyCountdown < COUNTDOWN_CAREGIVER
  /\ emergencyTimers # {}
  /\ Idle

\* C3: a step that runs cancelEmergency ends at level 0 with the reason
\* empty and no countdown or check-in timer live
C3_CancelClears ==
  [][Cancels => /\ emergencyLevel' = 0
                /\ emergencyReason' = ""
                /\ emergencyTimer' = Null
                /\ emergencyTimers' = {}]_vars

\* a running countdown was cancelled: level 0 again, the countdown value
\* left where the last tick put it
C3_Witness ==
  /\ emergencyLevel = 0 /\ emergencyReason = "" /\ emergencyTimers = {}
  /\ emergencyCountdown = COUNTDOWN_EMERGENCY - 1

\* C4: within an episode each contact action is executed at most once, and
\* once it has been executed no countdown towards that contact is live
C4_NoDoubleFire ==
  /\ \A c \in Contacts : callsMade[c] <= 1
  /\ \A t \in emergencyTimers :
       t.kind = "countdown" => callsMade[t.contact] = 0

\* the caregiver has been called and the alert stands at level 2
C4_Witness ==
  /\ emergencyLevel = 2 /\ callsMade["caregiver"] = 1
  /\ emergencyCountdown = 0

(* --------------------------- inference gateway ------------------------- *)
\* C5: the tasks dispatched and not yet settled never number more than
\* MAX_CONCURRENT_REQUESTS
C5_ConcurrencyCap ==
  /\ Len(running) <= MAX_CONCURRENT_REQUESTS
  /\ activeRequests <= MAX_CONCURRENT_REQUESTS

\* the cap is what holds a task back: both slots are taken, a task waits in
\* the queue, and the gateway is online and out of backoff
C5_Witness ==
  /\ Len(running) = MAX_CONCURRENT_REQUESTS
  /\ Len(taskQueue) > 0
  /\ isOnline /\ ~InBackoff(St)

\* C6: no running task was dispatched at an instant the backoff deadline was
\* still ahead
C6_NoDispatchInBackoff == \A i \in 1..Len(running) : ~running[i].inBackoff

\* a rate-limit answer has set the deadline while a task waited in the queue:
\* a slot is free and the gateway is online, yet the task stays queued
C6_Witness ==
  /\ InBackoff(St)
  /\ Len(taskQueue) > 0
  /\ isOnline /\ activeRequests < MAX_CONCURRENT_REQUESTS
  /\ Idle

\* the gateway still holds a task on which the promise awaited by `owner`
\* depends
Held(owner) ==
  \/ \E i \in 1..Len(taskQueue) : taskQueue[i].owner = owner
  \/ \E i \in 1..Len(running) : running[i].owner = owner

\* C7: the loop never wedges: a cycle suspended on its observe or reasoning
\* call always has that call held by the gateway, queued or dispatched, so
\* that the call can still settle and the cycle reach its completion step
C7_LoopNeverWedges ==
  \A c \in Slots : cycles[c] \in {"observe", "reason"} => Held(c)

(* ----------------------------- observation loop ----------------------- *)
\* the steps in which a step of a cycle throws: the capture, or the reading
\* of the observe result
Throws ==
  \/ \E c \in Slots : CaptureDone(c, TRUE, FALSE, MOTION_HIGH + 10, FALSE, TRUE)
  \/ \E i \in 1..Len(running), r \in CycleResults :
        running[i].kind = "observe" /\ RemoteCallEnds(i, "ok", r, FALSE, TRUE)

\* C8: when a step of a cycle throws, the handler ends with a loop timer
\* armed, provided the system is then active, unpaused, out of privacy mode
\* and at level 0
C8_ThrowRearms ==
  [][(Throws /\ isActive' /\ ~isLoopPaused' /\ ~isPrivacyMode'
             /\ emergencyLevel' = 0)
       => (loopTimeout' # Null /\ \E t \in loopTimers' : t.id = loopTimeout')]_vars

\* an exception has been absorbed at the cycle boundary, no cycle is
\* suspended and the loop timer is armed
C8_Witness ==
  /\ loopError
  /\ InFlight(St) = {}
  /\ LoopAllowed(St)
  /\ loopTimeout # Null /\ \E t \in loopTimers : t.id = loopTimeout

\* C9: at most one observation cycle is in flight at any instant
C9_OneCycleInFlight == Cardinality(InFlight(St)) <= 1

\* at most one timer of a role is live, and it is the one the handle names
OneLive(timers, handle) ==
  /\ Cardinality(timers) <= 1
  /\ \A t \in timers : t.id = handle

\* C10: every timer role (loop, emergency countdown/check-in, cue expiry) has
\* at most one live timer, the one its handle names: none is duplicated or
\* leaked
C10_OneTimerPerRole ==
  /\ OneLive(loopTimers, loopTimeout)
  /\ OneLive(emergencyTimers, emergencyTimer)
  /\ OneLive(cueTimers, cueTimeout)

\* the caregiver countdown ran out and level 3 armed the countdown anew,
\* while the cue-expiry timer of a spoken 'help' is pending
C10_Witness ==
  /\ emergencyLevel = 3 /\ callsMade["caregiver"] = 1
  /\ Cardinality(emergencyTimers) = 1
  /\ Cardinality(cueTimers) = 1


(* ------------------- the offline fallback, as a function ---------------- *)
\* the motion scores (0..100) and the minutes of the day (0..1439) the
\* fallback is called with: both sides of every comparison it makes
MotionScores == {0, 4, 5, 79, 80, 81, 100}
ClockMinutes ==
  {0, 524, 525, 540, 555, 556, 720, 764, 765, 795, 796, 1080, 1184, 1185,
   1215, 1216, 1439}

InitFallback ==
  /\ InitProgram
  /\ args \in { [fn |-> "runOfflineFallbackAnalysis", score |-> sc, minute |-> m] :
                 sc \in MotionScores, m \in ClockMinutes }
  /\ ret = NoCall

\* the gateway answers an observation from the fallback
CallFallback ==
  /\ args.fn = "runOfflineFallbackAnalysis" /\ ret = NoCall
  /\ ret' = [fn |-> args.fn,
             result |-> runOfflineFallbackAnalysis(args.score, activeMed(args.minute))]
  /\ UNCHANGED << isActive, isLoopPaused, isPrivacyMode, isSafeMode,
                  emergencyLevel, emergencyCountdown, emergencyReason,
                  recentCues, cueTimeout, loopTimeout, emergencyTimer, cycles,
                  loopTimers, emergencyTimers, cueTimers, isOutsideGeofence,
                  deps, dirty,
                  isOnline, backoffUntil, taskQueue, activeRequests, running,
                  lastObservation, retryTimers,
                  now, ticks, callsMade, loopError, geofenceAlerted, spoken,
                  args >>

NextFallback == CallFallback
SpecFallback == InitFallback /\ [][NextFallback]_vars

\* C11: whatever the motion score and the time of day, the result of the
\* offline fallback carries the emergency level NONE.
C11_FallbackLevelNone ==
  ret.fn = "runOfflineFallbackAnalysis" => ret.result.emergencyLevel = "NONE"

\* the fallback answered a schedule match with high motion
C11_Witness ==
  /\ ret.fn = "runOfflineFallbackAnalysis"
  /\ args.score > MOTION_HIGH /\ activeMed(args.minute)
  /\ ret.result.needsAssistance


(* --------------- observation cycles under network trouble -------------- *)
ObserveResults ==
  { r \in RemoteResults : r.observation \in {"calm scene", "fall detected"} }

NextObserve ==
  \/ RunEffect \/ VoiceActivate \/ CancelEmergency
  \/ GoOffline \/ GoOnline
  \/ \E d \in TimeSteps : Advance(d)
  \/ \E t \in loopTimers : LoopTimerFires(t)
  \/ RetryTimerFires
  \/ \E c \in Slots, a \in BOOLEAN, sc \in Scores, m \in BOOLEAN :
       CaptureDone(c, TRUE, a, sc, m, FALSE)
  \/ \E i \in 1..Len(running), o \in Outcomes, r \in ObserveResults, m \in BOOLEAN :
       RemoteCallEnds(i, o, r, m, FALSE)

SpecObserve == Init /\ [][NextObserve]_vars

\* the cycle calls observeEnvironment while the gateway is offline or in
\* backoff: the call returns the fallback at once
OfflineCapture ==
  /\ ~isOnline \/ InBackoff(St)
  /\ \E c \in Slots, a \in BOOLEAN, sc \in Scores, m \in BOOLEAN :
       CaptureDone(c, TRUE, a, sc, m, FALSE)

\* the remote call of a cycle's observe task fails and the catch block
\* answers with the fallback: directly, or through the retry without audio
\* when that retry finds the gateway offline or in backoff
FailedObserve ==
  \E i \in 1..Len(running), o \in Outcomes \ {"ok"}, r \in ObserveResults,
     m \in BOOLEAN :
    /\ running[i].kind = "observe" /\ running[i].owner \in Slots
    /\ (running[i].audio /\ o = "badPayload") => (~isOnline \/ InBackoff(St))
    /\ RemoteCallEnds(i, o, r, m, FALSE)

\* C12: a cycle whose observation is the result of the offline fallback
\* does not escalate: the step that delivers the fallback to the cycle
\* leaves the emergency level and the contact actions as they were.
C12_FallbackNeverEscalates ==
  [][ \/ /\ emergencyLevel' = emergencyLevel
         /\ emergencyReason' = emergencyReason
         /\ callsMade' = callsMade
      \/ ~(OfflineCapture \/ FailedObserve) ]_vars

\* a cycle's observe call was rate limited; the cycle took the fallback,
\* completed and re-armed the loop, with no alert raised
C12_Witness ==
  /\ backoffUntil > now /\ isOnline /\ isActive
  /\ running = << >> /\ taskQueue = << >>
  /\ \A c \in Slots : cycles[c] = "idle"
  /\ loopTimeout # Null /\ emergencyLevel = 0


\* C13: an observation request is answered with the cached result, without
\* a dispatch, if and only if it carries no audio, its motion score is below
\* 5 and the cached result is younger than 60000 ms. Stated for every
\* request a cycle that has captured its frame may make.
C13_CachedIff ==
  \A c \in Slots, a \in BOOLEAN, sc \in Scores :
    (Idle /\ cycles[c] = "capture") =>
      LET r == observeEnvironment(St, c, a, sc, FALSE, FALSE)
      IN  (r.done /\ r.val = lastObservation.result /\ r.st = St)
            <=> /\ ~a /\ sc < MOTION_CACHE_LIMIT
                /\ lastObservation.valid
                /\ now - lastObservation.timestamp < CACHE_TTL_MS


(* ------------------------------ geofence ------------------------------- *)
\* the geofence effect raises its alert
GeofenceFires ==
  /\ emergencyLevel = 0 /\ emergencyLevel' = 1
  /\ emergencyReason' = "User left safe zone"

\* C14: a breach of the geofence raises the level 1 alert 'User left safe
\* zone' once: while the user stays outside the safe zone, the alert is
\* not raised again, neither by a position update nor after a cancel.
C14_OncePerBreach ==
  [][ ~(geofenceAlerted /\ isOutsideGeofence' /\ GeofenceFires) ]_vars


(* ------------------------------ heartbeat ------------------------------ *)
\* the loop is alive: its timer is pending or a cycle is in flight
LoopAlive == loopTimers # {} \/ \E c \in Slots : cycles[c] # "idle"

\* the system is on and nothing forbids a cycle, the effects being flushed
Resumable == Idle /\ LoopAllowed(St)

\* the system is on, with a guard of the loop failing
GuardFails == Idle /\ isActive /\ (isPrivacyMode \/ isLoopPaused)

\* C15 as stated: the heartbeat goes on while a guard fails (the timer
\* fires, the cycle is skipped, the next timer is scheduled), so that in
\* privacy mode or in a pause a loop timer is pending.
C15_TimerSurvivesGuard == GuardFails => LoopAlive

\* C15 amended: no loop timer is pending while a guard fails, so none
\* fires then; and whenever the guards come to hold again, the handler
\* that cleared the guard (or the effect it schedules) has re-armed the
\* loop: cycles resume without any other command.
C15_GuardStopsAndRestarts ==
  [][ /\ (Idle /\ ~LoopAllowed(St))' => (loopTimers' = {})
      /\ (Resumable' /\ ~Resumable) => LoopAlive' ]_vars

\* a cycle saw a fall and raised level 3; the alert was cancelled and the
\* loop timer is pending again
C15_Witness ==
  /\ Resumable /\ loopTimeout # Null
  /\ lastObservation.valid
  /\ lastObservation.result.emergencyLevel = "CRITICAL"
  /\ \A c \in Slots : cycles[c] = "idle"


(* --------------------------- adaptive scheduler ------------------------ *)
\* checkCriticalTime(now): within CRITICAL_WINDOW minutes of a medication
\* reminder or of an entry of the daily routine
checkCriticalTime(currentMinutes) ==
  \E event \in medication_reminders \cup daily_routine :
    Abs(currentMinutes - MinutesOf(event)) <= CRITICAL_WINDOW

\* updateBatteryStatus: battery.level < 0.2 && !battery.charging, the level
\* in percent
isLowPowerMode(ctx) == ctx.battery < LOW_BATTERY /\ ~ctx.charging

\* Math.floor(interval * 1.5)
TimesOneAndHalf(interval) == (interval * 3) \div 2

\* step 3 of calculateNextInterval: the multipliers
Throttle(interval, ctx) ==
  LET i1 == IF isLowPowerMode(ctx) THEN interval * 2 ELSE interval
      i2 == IF ctx.network = "slow" THEN TimesOneAndHalf(i1) ELSE i1
  IN  IF ctx.saveData THEN TimesOneAndHalf(i2) ELSE i2

\* Math.floor((minutesIdle / 5) * 5000), minutesIdle = idle / 60000: one
\* millisecond of interval for every 60 ms of idle time
LinearBackoff(idle) == idle \div ((MS_PER_MINUTE * IDLE_MINUTES) \div IDLE_STEP_MS)

\* step 2 of calculateNextInterval: nothing up to 5 idle minutes
IdleBackoff(idle) ==
  IF idle > IDLE_MINUTES * MS_PER_MINUTE
    THEN Min(MAX_BACKOFF, LinearBackoff(idle)) ELSE 0

\* variant: the backoff grows with the idle time without a cap
calculateNextIntervalUncapped(ctx) ==
  IF checkCriticalTime(ctx.minute) THEN Throttle(CRITICAL_INTERVAL, ctx)
  ELSE Throttle(BASE_INTERVAL + LinearBackoff(ctx.idle), ctx)

\* variant: the idle backoff is added inside a critical window too
calculateNextIntervalBackoffInWindow(ctx) ==
  Throttle((IF checkCriticalTime(ctx.minute) THEN CRITICAL_INTERVAL
                                              ELSE BASE_INTERVAL)
             + IdleBackoff(ctx.idle), ctx)

\* calculateNextInterval() in the context ctx: minute of the day, time since
\* the last recorded activity (ms), battery, network class, data saver
calculateNextInterval(ctx) ==
  IF checkCriticalTime(ctx.minute) THEN Throttle(CRITICAL_INTERVAL, ctx)
  ELSE Throttle(BASE_INTERVAL + IdleBackoff(ctx.idle), ctx)

\* the contexts the scheduler is called in: minutes of the day on both
\* sides of every critical window, idle times on both sides of the 5 minute
\* threshold and of the cap, battery on both sides of 20%
SchedMinutes ==
  {0, 300, 509, 510, 540, 570, 571, 749, 750, 810, 811, 1049, 1050, 1110,
   1111, 1169, 1170, 1230, 1231, 1439}
IdleTimes ==
  {0, 299999, 300000, 300001, 300060, 360000, 600000, 720000, 1319999,
   1320000, 1320060, 3600000}
BatteryLevels == {15, 20, 100}
NetworkClasses == {"online", "slow", "offline"}

Contexts ==
  [minute : SchedMinutes, idle : IdleTimes, battery : BatteryLevels,
   charging : BOOLEAN, network : NetworkClasses, saveData : BOOLEAN]

InitScheduler ==
  /\ InitProgram
  /\ args \in { [fn |-> "calculateNextInterval", ctx |-> x] : x \in Contexts }
  /\ ret = NoCall

\* startLoop asks the scheduler for the next interval
CallScheduler ==
  /\ args.fn = "calculateNextInterval" /\ ret = NoCall
  /\ ret' = [fn |-> args.fn, interval |-> calculateNextInterval(args.ctx)]
  /\ UNCHANGED << isActive, isLoopPaused, isPrivacyMode, isSafeMode,
                  emergencyLevel, emergencyCountdown, emergencyReason,
                  recentCues, cueTimeout, loopTimeout, emergencyTimer, cycles,
                  loopTimers, emergencyTimers, cueTimers, isOutsideGeofence,
                  deps, dirty,
                  isOnline, backoffUntil, taskQueue, activeRequests, running,
                  lastObservation, retryTimers,
                  now, ticks, callsMade, loopError, geofenceAlerted, spoken,
                  args >>

NextScheduler == CallScheduler
SpecScheduler == InitScheduler /\ [][NextScheduler]_vars

\* the scheduler has answered
Scheduled == ret.fn = "calculateNextInterval"

\* C16: in every context the interval lies between two fixed bounds: the
\* critical-window interval below, and above the base interval with the
\* full idle backoff and every multiplier applied.
C16_IntervalBounded ==
  Scheduled =>
    /\ ret.interval >= CRITICAL_INTERVAL
    /\ ret.interval <= TimesOneAndHalf(TimesOneAndHalf((BASE_INTERVAL + MAX_BACKOFF) * 2))

\* the upper bound is met: an hour idle, low battery, slow network, data saver
C16_Witness ==
  /\ Scheduled
  /\ ret.interval = TimesOneAndHalf(TimesOneAndHalf((BASE_INTERVAL + MAX_BACKOFF) * 2))
  /\ args.ctx.idle > IDLE_MINUTES * MS_PER_MINUTE


\* C17 as stated: within 30 minutes of a medication reminder or of a routine
\* entry the interval is 3000 ms.
C17_CriticalIsConstant ==
  (Scheduled /\ checkCriticalTime(args.ctx.minute))
    => ret.interval = CRITICAL_INTERVAL

\* C17 amended: within 30 minutes of an anchor the interval does not depend
\* on the idle time: it is 3000 ms, doubled on low battery and multiplied
\* by 1.5 (rounded down) on a slow network and again with the data saver.
C17_CriticalIgnoresIdle ==
  (Scheduled /\ checkCriticalTime(args.ctx.minute))
    => LET ctx == args.ctx
           a == IF ctx.battery < LOW_BATTERY /\ ~ctx.charging
                  THEN CRITICAL_INTERVAL * 2 ELSE CRITICAL_INTERVAL
           b == IF ctx.network = "slow" THEN (a * 3) \div 2 ELSE a
           c == IF ctx.saveData THEN (b * 3) \div 2 ELSE b
       IN  /\ ret.interval = c
           /\ \A i \in IdleTimes :
                calculateNextInterval([ctx EXCEPT !.idle = i]) = ret.interval

\* an hour idle inside a critical window, on low battery: 6000 ms
C17_Witness ==
  /\ Scheduled /\ checkCriticalTime(args.ctx.minute)
  /\ args.ctx.idle > IDLE_MINUTES * MS_PER_MINUTE
  /\ isLowPowerMode(args.ctx) /\ args.ctx.network = "online" /\ ~args.ctx.saveData
  /\ ret.interval = CRITICAL_INTERVAL * 2

\* C18: outside the critical windows the interval is
\* clamp((8000 + min(22000, floor(idleMinutes / 5) * 5000)) x 2 on low battery
\* x 1.5 on a slow network x 1.5 with the data saver), the clamp being to the
\* least and the greatest interval of C16.
C18_IdleFormula ==
  (Scheduled /\ ~checkCriticalTime(args.ctx.minute))
    => LET ctx == args.ctx
           steps == ctx.idle \div (IDLE_MINUTES * MS_PER_MINUTE)
           a == BASE_INTERVAL + Min(MAX_BACKOFF, steps * IDLE_STEP_MS)
           b == IF ctx.battery < LOW_BATTERY /\ ~ctx.charging THEN a * 2 ELSE a
           c == IF ctx.network = "slow" THEN (b * 3) \div 2 ELSE b
           d == IF ctx.saveData THEN (c * 3) \div 2 ELSE c
           lo == CRITICAL_INTERVAL
           hi == TimesOneAndHalf(TimesOneAndHalf((BASE_INTERVAL + MAX_BACKOFF) * 2))
       IN  ret.interval = Max(lo, Min(hi, d))


(* ------------------------- the gateway's promises ---------------------- *)
\* the running task r is the queued task t, dispatched
Dispatched(t, r) ==
  /\ r.kind = t.kind /\ r.owner = t.owner /\ r.audio = t.audio
  /\ r.score = t.score /\ r.retryable = t.retryable /\ r.nested = t.nested

\* C19: the promise of every task handed to the gateway settles; for a
\* queued task this requires that it leaves the queue only by being
\* dispatched: after every step, a task that was queued is still queued
\* or is running.
C19_QueuedTaskKept ==
  [][ \A i \in 1..Len(taskQueue) :
        \/ \E j \in 1..Len(taskQueue') : taskQueue'[j] = taskQueue[i]
        \/ \E j \in 1..Len(running') : Dispatched(taskQueue[i], running'[j]) ]_vars

\* C20: nothing is dispatched while the gateway is offline: in a step that
\* ends offline no task starts running, the queued tasks stay queued in
\* their order, and only retryable tasks are added to the queue.
C20_NoDispatchOffline ==
  [][ ~isOnline' =>
        /\ \A j \in 1..Len(running') : \E i \in 1..Len(running) : running[i] = running'[j]
        /\ Len(taskQueue') >= Len(taskQueue)
        /\ SubSeq(taskQueue', 1, Len(taskQueue)) = taskQueue
        /\ \A k \in (Len(taskQueue) + 1)..Len(taskQueue') : taskQueue'[k].retryable ]_vars

\* a retryable task waits in the queue with a free slot and no backoff:
\* only the missing connectivity holds it
C20_Witness ==
  /\ ~isOnline /\ ~InBackoff(St)
  /\ activeRequests < MAX_CONCURRENT_REQUESTS
  /\ taskQueue # << >> /\ taskQueue[1].retryable


(* --------------------------- order of dispatch ------------------------- *)
\* C21: tasks are dispatched in the order of their enqueue: no running
\* task was started while a task enqueued before it was left in the queue.
C21_DispatchFifo ==
  \A i \in 1..Len(running) : ~running[i].overtook

\* the report was dispatched from the queue while the observe task of a
\* cycle, enqueued after it, is held by the cap
C21_Witness ==
  /\ Len(running) = MAX_CONCURRENT_REQUESTS
  /\ running[Len(running)].kind = "report"
  /\ taskQueue # << >> /\ taskQueue[1].kind = "observe"


\* C22: a task whose age has reached 300000 ms is never dispatched: no
\* running task was that old when it was started.
C22_StaleNeverDispatched ==
  \A i \in 1..Len(running) : ~running[i].stale

\* a drain has found the task of a suspended cycle stale and removed it:
\* the cycle waits and the gateway holds no task of it
C22_Witness ==
  /\ now >= STALE_TTL_MS
  /\ \E c \in Slots : cycles[c] \in {"observe", "reason"} /\ ~Held(c)


(* ---------------------------- rate-limit backoff ----------------------- *)
\* a remote call ends with the rate-limit answer
RateLimited ==
  \E i \in 1..Len(running), r \in GatewayResults :
    RemoteCallEnds(i, "rateLimit", r, FALSE, FALSE)

\* a task could be dispatched but for the backoff deadline (or, the deadline
\* passed, but for a run of processQueue)
Drainable ==
  /\ Idle /\ isOnline
  /\ taskQueue # << >> /\ activeRequests < MAX_CONCURRENT_REQUESTS

\* C23: a rate-limit answer sets the backoff deadline to the time of the
\* answer plus 30000 ms, and the drain re-arms itself: whenever a queued
\* task could be dispatched, during the backoff and once it is over, a run
\* of processQueue is pending, so that the task is dispatched without any
\* new enqueue or connectivity event.
C23_BackoffThenDrain ==
  [][ /\ (backoffUntil' = now + BACKOFF_MS) \/ ~RateLimited
      /\ Drainable' => (retryTimers' > 0) ]_vars

\* the deadline of a rate-limit answer has passed, a task is still queued
\* and the pending drain is what will dispatch it
C23_Witness ==
  /\ Drainable /\ retryTimers > 0
  /\ backoffUntil > 0 /\ now >= backoffUntil


(* ------------------------------ audio requests ------------------------- *)
\* the remote call of an observe request made with audio fails with a
\* payload error
AudioPayloadError(i) ==
  /\ running[i].kind = "observe" /\ running[i].audio
  /\ \E r \in ObserveResults, m \in BOOLEAN :
       RemoteCallEnds(i, "badPayload", r, m, FALSE)

\* C24: an observe request that carries an audio segment is never answered
\* from the cache: also when its remote call fails, what it resolves with
\* is not the cached result.
C24_AudioNeverCached ==
  [][ \A i \in 1..Len(running) :
        AudioPayloadError(i)
          => ~(isOnline /\ ~InBackoff(St) /\ CacheHit(St, FALSE, running[i].score)) ]_vars


\* the tasks the gateway holds, queued and running
AllTasks == taskQueue \o running

\* C25: an observe call with audio that fails with a payload error is
\* retried once, without the audio, and the retry is not retried: the
\* retry carries no audio, the call that awaits a retry is not itself a
\* retry, and each cycle has at most one retry, so that one request makes
\* at most two remote calls.
C25_OneDegradedRetry ==
  /\ \A i \in 1..Len(AllTasks) :
       /\ AllTasks[i].nested => ~AllTasks[i].audio
       /\ AllTasks[i].waiting => (AllTasks[i].audio /\ ~AllTasks[i].nested)
  /\ \A i, j \in 1..Len(AllTasks) :
       (AllTasks[i].nested /\ AllTasks[j].nested
          /\ AllTasks[i].owner = AllTasks[j].owner) => i = j

\* the call with audio has failed and awaits its retry, which is running
C25_Witness ==
  \E i, j \in 1..Len(running) :
    /\ running[i].waiting /\ running[i].audio
    /\ running[j].nested /\ running[j].owner = running[i].owner


(* --------------------- failures absorbed by the gateway ---------------- *)
\* cycle c calls observeEnvironment while the gateway is offline or in backoff
OfflineCaptureOf(c) ==
  /\ ~isOnline \/ InBackoff(St)
  /\ \E a \in BOOLEAN, sc \in Scores, m \in BOOLEAN :
       CaptureDone(c, TRUE, a, sc, m, FALSE)

\* the remote call of the running observe task i fails, and no retry
\* without audio is dispatched for it
FailedObserveAt(i) ==
  /\ running[i].kind = "observe" /\ running[i].owner \in Slots
  /\ \E o \in Outcomes \ {"ok"}, r \in ObserveResults, m \in BOOLEAN :
       /\ (running[i].audio /\ o = "badPayload") => (~isOnline \/ InBackoff(St))
       /\ RemoteCallEnds(i, o, r, m, FALSE)

\* C26: an observe request made offline or during backoff, or whose remote
\* call fails, surfaces no error to the cycle: the request resolves (with the
\* result of the fallback), the cycle runs to its end in the same step and
\* no 'Loop Error' is logged.
C26_FailuresAbsorbed ==
  [][ /\ \A c \in Slots :
           \/ cycles'[c] = cycles[c]
           \/ cycles'[c] = "idle" /\ ~loopError'
           \/ ~OfflineCaptureOf(c)
      /\ \A i \in 1..Len(running) :
           \/ i <= Len(running') /\ running'[i] = running[i]
           \/ running[i].owner \notin Slots
           \/ cycles'[running[i].owner] = "idle" /\ ~loopError'
           \/ ~FailedObserveAt(i) ]_vars

\* a cycle's call was rate limited and the network then dropped; the cycle
\* has completed on the fallback and re-armed the loop, with no error logged
C26_Witness ==
  /\ backoffUntil > now /\ ~isOnline /\ isActive
  /\ running = << >> /\ taskQueue = << >>
  /\ \A c \in Slots : cycles[c] = "idle"
  /\ loopTimeout # Null /\ ~loopError

(* ---------------------- reasoning during a backoff ---------------------- *)
\* ---- the loop and spoken questions against a gateway whose calls succeed or
\* are rate limited, every observation calling for a nudge
ReasoningResults == { r \in RemoteResults : r.observation = "user hesitates" }

NextReasoning ==
  \/ RunEffect
  \/ VoiceActivate
  \/ VoiceQuery(FALSE, TRUE)
  \/ \E d \in TimeSteps : Advance(d)
  \/ \E t \in loopTimers : LoopTimerFires(t)
  \/ RetryTimerFires
  \/ \E c \in Slots : CaptureDone(c, TRUE, FALSE, MOTION_HIGH + 10, FALSE, FALSE)
  \/ \E i \in 1..Len(running), o \in {"ok", "rateLimit"}, r \in ReasoningResults :
        RemoteCallEnds(i, o, r, FALSE, FALSE)

SpecReasoning == Init /\ [][NextReasoning]_vars

\* the reasoning tasks the gateway holds, queued or dispatched
ReasonTasks ==
  Cardinality({ i \in 1..Len(AllTasks) : AllTasks[i].kind = "reason" })

\* a spoken question reaches triggerReasoning(…, 'question') during a backoff
QuestionInBackoff ==
  /\ InBackoff(St) /\ isActive /\ ~isPrivacyMode
  /\ VoiceQuery(FALSE, TRUE)

\* a cycle reaches triggerReasoning(…, 'observation') during a backoff: its
\* observation arrives fresh and asks for assistance at level NONE
ObservationInBackoff ==
  /\ InBackoff(St)
  /\ \E i \in 1..Len(running), r \in ReasoningResults :
        /\ running[i].kind = "observe" /\ running[i].owner \in Slots
        /\ RemoteCallEnds(i, "ok", r, FALSE, FALSE)

\* C27: while the backoff deadline is in the future a reasoning request is
\* not dispatched: a question of the user is answered with the canned
\* text, a reasoning request of the cycle has nothing spoken
C27_BackoffReasoning ==
  [][ /\ QuestionInBackoff =>
           ReasonTasks' <= ReasonTasks /\ spoken' = ReasonCanned
      /\ ObservationInBackoff =>
           ReasonTasks' <= ReasonTasks /\ spoken' = NoSpeech ]_vars

(* ------------------------- privacy and the cycle ------------------------ *)
\* the observe tasks the gateway holds, queued or dispatched
ObserveTasks ==
  Cardinality({ i \in 1..Len(AllTasks) : AllTasks[i].kind = "observe" })

\* a guard of the loop fails: inactive, paused, in an alert or in privacy mode
LoopForbidden ==
  ~isActive \/ isLoopPaused \/ emergencyLevel > 0 \/ isPrivacyMode

\* C28: a loop timer that fires while a guard of the loop fails starts no
\* cycle; and while privacy mode is on no step captures for a cycle, reports
\* a sensor error or submits an observe task
C28_PrivacyStopsCycle ==
  [][ /\ LoopForbidden /\ (\E t \in loopTimers : LoopTimerFires(t))
           => cycles' = cycles
      /\ isPrivacyMode =>
           /\ ObserveTasks' <= ObserveTasks
           /\ isSafeMode' = isSafeMode
           /\ ~(\E c \in Slots, a \in BOOLEAN :
                  CaptureDone(c, TRUE, a, MOTION_HIGH + 10, FALSE, FALSE)) ]_vars

(* ---------------------- stopping with a cycle in flight ----------------- *)
\* the observe call of a cycle returns a fresh result after the system has
\* been switched off
CompletesAfterStop(i, r) ==
  /\ ~isActive
  /\ running[i].kind = "observe" /\ running[i].owner \in Slots
  /\ RemoteCallEnds(i, "ok", r, FALSE, FALSE)

\* the result r of the cycle c has been applied: it is stored and the
\* decision rules have run on it
Applied(c, r) ==
  /\ lastObservation'.valid /\ lastObservation'.result = r
  /\ r.emergencyLevel = "CRITICAL" => emergencyLevel' = 3 /\ cycles'[c] = "idle"
  /\ r.emergencyLevel = "SOFT" => emergencyLevel' >= 1 /\ cycles'[c] = "idle"
  /\ r.emergencyLevel = "NONE" => cycles'[c] = "reason"

\* C29: stopping the loop of a deactivated system clears the pending timer
\* and leaves the cycles in flight and their tasks alone; a cycle in flight
\* applies the result it receives after the deactivation; and no step taken
\* while the system is off arms a loop timer
C29_StopLeavesCycle ==
  [][ /\ ~isActive /\ loopTimers # {} /\ loopTimers' = {}
           => cycles' = cycles /\ running' = running /\ taskQueue' = taskQueue
      /\ ~isActive => loopTimers' \subseteq loopTimers
      /\ \A i \in 1..Len(running), r \in CycleResults :
           \/ i <= Len(running') /\ running'[i] = running[i]
           \/ running[i].owner \notin Slots
           \/ Applied(running[i].owner, r)
           \/ ~CompletesAfterStop(i, r) ]_vars

\* the system has been switched off and the timer cleared with a cycle
\* awaiting its observation, after an earlier cycle has stored its own
C29_Witness ==
  /\ ~isActive /\ Idle /\ loopTimers = {} /\ loopTimeout = Null
  /\ \E c \in Slots : cycles[c] = "observe"
  /\ \E c \in Slots : cycles[c] = "idle"

(* --------------------------- decision rules ---------------------------- *)
\* ---- the loop against a remote model that answers every call, with every
\* combination the rules tell apart: a confidence on the threshold, and a
\* critical level without a need of assistance
DecisionResults ==
  RemoteResults
    \cup { Result(TRUE, "SOFT", CONFUSION_THRESHOLD, FALSE, "user unsure"),
           Result(FALSE, "CRITICAL", 90, FALSE, "alarm on television") }

NextDecision ==
  \/ RunEffect
  \/ VoiceActivate
  \/ TogglePrivacy
  \/ CancelEmergency
  \/ \E t \in loopTimers : LoopTimerFires(t)
  \/ \E t \in emergencyTimers : EmergencyTimerFires(t)
  \/ \E c \in Slots : CaptureDone(c, TRUE, FALSE, MOTION_HIGH + 10, FALSE, FALSE)
  \/ \E i \in 1..Len(running), r \in DecisionResults :
        RemoteCallEnds(i, "ok", r, FALSE, FALSE)

SpecDecision == Init /\ [][NextDecision]_vars

\* the observe call of a cycle returns the fresh result r
FreshResult(i, r) ==
  /\ running[i].kind = "observe" /\ running[i].owner \in Slots
  /\ RemoteCallEnds(i, "ok", r, FALSE, FALSE)

\* the step has made the call escalate(level, reason): the level is raised
\* to `level` with that reason, unless it had already reached it
Escalated(level, reason) ==
  /\ emergencyLevel' = Max(emergencyLevel, level)
  /\ emergencyLevel < level => emergencyReason' = reason

\* what the rules prescribe for the result r
Prescribed(r) ==
  IF r.needsAssistance /\ r.confidence > CONFUSION_THRESHOLD
    THEN CASE r.emergencyLevel = "CRITICAL" ->
                Escalated(3, r.observation) /\ ReasonTasks' = ReasonTasks
           [] r.emergencyLevel = "SOFT" ->
                Escalated(1, r.observation) /\ ReasonTasks' = ReasonTasks
           [] OTHER ->
                /\ ReasonTasks' = ReasonTasks + 1
                /\ emergencyLevel' = emergencyLevel
                /\ emergencyReason' = emergencyReason
    ELSE /\ ReasonTasks' = ReasonTasks
         /\ emergencyLevel' = emergencyLevel
         /\ emergencyReason' = emergencyReason

\* C30: on a fresh result that needs assistance with a confidence strictly
\* above the threshold the cycle escalates to level 3 if the result is
\* CRITICAL, to level 1 if it is SOFT, and otherwise issues one reasoning
\* request; on any other result it neither escalates nor requests
\* reasoning, whatever the level of the result
C30_DecisionRules ==
  [][ \A i \in 1..Len(running), r \in DecisionResults :
        \/ i <= Len(running') /\ running'[i] = running[i]
        \/ Prescribed(r)
        \/ ~FreshResult(i, r) ]_vars

\* a cycle has escalated to level 3 on the fall it observed
C30_Witness ==
  /\ emergencyLevel = 3 /\ emergencyReason = "fall detected"
  /\ lastObservation.valid
  /\ lastObservation.result.observation = "fall detected"

(* ----------------------------- privacy zone ---------------------------- *)
\* C31: a fresh result that reports a privacy zone, received outside privacy
\* mode, puts the controller in privacy mode and has no assistance rule
\* applied: the alert level stays and no reasoning request is issued
C31_PrivacyZoneOnly ==
  [][ \A i \in 1..Len(running), r \in DecisionResults :
        \/ i <= Len(running') /\ running'[i] = running[i]
        \/ ~r.isPrivacyZone \/ isPrivacyMode
        \/ /\ isPrivacyMode'
           /\ emergencyLevel' = emergencyLevel
           /\ ReasonTasks' = ReasonTasks
        \/ ~FreshResult(i, r) ]_vars

(* ---------------------------- capture failure -------------------------- *)
\* ---- the loop with a camera that may deliver no frame and may recover,
\* under the commands that switch the guards of the loop
NextCapture ==
  \/ RunEffect
  \/ ToggleSystem
  \/ TogglePrivacy
  \/ VoicePause
  \/ VoiceResume
  \/ CameraRecovery
  \/ \E t \in loopTimers : LoopTimerFires(t)
  \/ \E c \in Slots, f \in BOOLEAN :
        CaptureDone(c, f, FALSE, MOTION_HIGH + 10, FALSE, FALSE)
  \/ \E i \in 1..Len(running), r \in GatewayResults :
        RemoteCallEnds(i, "ok", r, FALSE, FALSE)

SpecCapture == Init /\ [][NextCapture]_vars

\* the capture of the cycle c yields no frame while safe mode is off
CaptureFails(c) ==
  /\ ~isSafeMode
  /\ CaptureDone(c, FALSE, FALSE, MOTION_HIGH + 10, FALSE, FALSE)

\* C32: a capture that yields no frame outside safe mode reports the camera
\* as failed (safe mode comes on), ends the cycle without an error, submits
\* no observe task, raises no alert and requests no reasoning, and leaves
\* exactly one loop timer armed (none when a guard of the loop forbids it)
C32_CaptureFailure ==
  [][ \A c \in Slots :
        \/ cycles'[c] = cycles[c]
        \/ /\ isSafeMode' /\ cycles'[c] = "idle" /\ ~loopError'
           /\ ObserveTasks' = ObserveTasks /\ ReasonTasks' = ReasonTasks
           /\ emergencyLevel' = emergencyLevel
           /\ Cardinality(loopTimers') = IF LoopForbidden' THEN 0 ELSE 1
        \/ ~CaptureFails(c) ]_vars

\* the camera has failed in a cycle: safe mode is on, the cycle is over, no
\* observation was ever requested and one loop timer is armed
C32_Witness ==
  /\ isActive /\ isSafeMode /\ Cardinality(loopTimers) = 1
  /\ \A c \in Slots : cycles[c] = "idle"
  /\ running = << >> /\ taskQueue = << >> /\ ~lastObservation.valid

(* ----------------------- the loop during an alert ---------------------- *)
\* C33: whenever a loop timer is armed the alert level is 0 and the loop is
\* not paused
C33_TimerImpliesCalm ==
  loopTimers # {} => emergencyLevel = 0 /\ ~isLoopPaused

\* an alert has been raised over a cycle in flight, whose completion will
\* call startLoop; a pause is in force as well
C33_Witness ==
  /\ emergencyLevel > 0 /\ isLoopPaused /\ isActive
  /\ loopTimers = {}
  /\ \E c \in Slots : cycles[c] = "observe"

(* ------------------------- check-in and countdown ----------------------- *)
\* ---- the alert protocol under every command, spoken answers included,
\* with cycles whose observations are calm or call for a check-in
AlertResults ==
  { r \in RemoteResults : r.observation \in {"calm scene", "user is searching"} }

NextAlert ==
  \/ Commands
  \/ \E a \in BOOLEAN : VoiceQuery(a, TRUE)
  \/ \E c \in Slots : CaptureDone(c, TRUE, FALSE, MOTION_HIGH + 10, FALSE, FALSE)
  \/ \E i \in 1..Len(running), r \in AlertResults :
        RemoteCallEnds(i, "ok", r, FALSE, FALSE)

SpecAlert == Init /\ [][NextAlert]_vars

\* the live check-in timers of level 1
CheckinTimers(timers) == { t \in timers : t.kind = "checkin" }

\* C34: while the alert stands at level 1 its check-in timer is pending, and
\* when it fires, or when an affirmative answer is heard, the alert is
\* cancelled; once the alert stands at level 2 or 3 no check-in timer is
\* left that could fire
C34_CheckinCancels ==
  [][ /\ emergencyLevel' = 1 =>
           \E t \in CheckinTimers(emergencyTimers') : t.id = emergencyTimer'
      /\ emergencyLevel' > 1 => CheckinTimers(emergencyTimers') = {}
      /\ \A t \in CheckinTimers(emergencyTimers) :
           \/ t \in emergencyTimers'
           \/ emergencyLevel' # 1
      /\ \/ emergencyLevel # 1
         \/ emergencyLevel' = 0 /\ emergencyTimers' = {}
         \/ ~(\/ VoiceQuery(TRUE, TRUE)
              \/ \E t \in emergencyTimers : EmergencyTimerFires(t)) ]_vars

\* the alert stands at level 1 with its check-in timer pending, raised by
\* the cycle that saw the user searching
C34_Witness ==
  /\ emergencyLevel = 1 /\ emergencyReason = "user is searching"
  /\ CheckinTimers(emergencyTimers) # {} /\ Idle

\* the contact of the countdown of a level
ContactOf(level) == IF level = 2 THEN "caregiver" ELSE "911"

\* the live countdown timers
CountdownTimers(timers) == { t \in timers : t.kind = "countdown" }

\* C35: entry to level 2 (3) sets the countdown to 15 (10) and starts the
\* countdown towards the caregiver (emergency services); a tick takes one
\* off the countdown, and the tick that brings it to 0 executes the contact
\* action towards the contact of the level current then and stops the
\* countdown; no contact action is executed otherwise
C35_CountdownContacts ==
  [][ /\ \A l \in 2..3 :
           emergencyLevel < l /\ emergencyLevel' = l =>
             /\ emergencyCountdown' =
                  (IF l = 2 THEN COUNTDOWN_CAREGIVER ELSE COUNTDOWN_EMERGENCY)
             /\ CountdownTimers(emergencyTimers') # {}
             /\ \A t \in emergencyTimers' :
                  t.kind = "countdown" /\ t.contact = ContactOf(l)
      /\ \A t \in CountdownTimers(emergencyTimers) :
           \/ emergencyCountdown' = emergencyCountdown
           \/ IF emergencyCountdown > 1
                THEN /\ emergencyCountdown' = emergencyCountdown - 1
                     /\ callsMade' = callsMade
                     /\ emergencyTimers' = emergencyTimers
                ELSE /\ emergencyCountdown' = 0
                     /\ emergencyTimers' = {}
                     /\ callsMade' = [callsMade EXCEPT
                                        ![ContactOf(emergencyLevel)] = @ + 1]
           \/ ~EmergencyTimerFires(t)
      /\ \A c \in Contacts :
           callsMade'[c] > callsMade[c] =>
             /\ emergencyLevel \in 2..3 /\ c = ContactOf(emergencyLevel)
             /\ emergencyLevel' = emergencyLevel ]_vars

\* emergency services have been contacted at level 3, the caregiver has
\* not, and the countdown has stopped at 0
C35_Witness ==
  /\ emergencyLevel = 3 /\ emergencyCountdown = 0 /\ emergencyTimers = {}
  /\ callsMade["911"] = 1 /\ callsMade["caregiver"] = 0

(* ------------------------ resuming after a cancel ----------------------- *)
\* C36: a step that runs cancelEmergency, at a level above 0 or by the
\* cancel command at level 0, ends with one loop timer armed if the system
\* is active, not paused and not in privacy mode, and with none otherwise
C36_CancelResumes ==
  [][ \/ ~(emergencyLevel > 0 /\ emergencyLevel' = 0)
         /\ ~(emergencyLevel = 0 /\ CancelEmergency)
      \/ Cardinality(loopTimers') = IF LoopForbidden' THEN 0 ELSE 1 ]_vars

\* a level 2 alert whose countdown had run two seconds has been cancelled
\* and the loop timer is armed again
C36_Witness ==
  /\ emergencyLevel = 0 /\ emergencyCountdown = COUNTDOWN_CAREGIVER - 2
  /\ isActive /\ loopTimers # {} /\ emergencyTimers = {}

(* ------------------- the alert while the loop is stopped ---------------- *)
\* the steps that stop the loop without cancelling: the DEACTIVATE and PAUSE
\* commands, the backgrounding of the app, the privacy toggle, and the
\* effect that follows a change of the active state
LoopStops ==
  \/ VoiceDeactivate \/ VoicePause \/ Background \/ TogglePrivacy \/ RunEffect

\* C37: at level 2 or 3 a step that deactivates, pauses, backgrounds,
\* toggles privacy or runs the effect that stops the loop leaves level,
\* reason, countdown value, countdown timer and contact actions as they
\* are; and at level 2 or 3 the countdown towards the contact of the level
\* is live until its contact action has been executed
C37_AlertSurvivesStop ==
  [][ /\ \/ /\ emergencyLevel' = emergencyLevel
            /\ emergencyReason' = emergencyReason
            /\ emergencyCountdown' = emergencyCountdown
            /\ emergencyTimer' = emergencyTimer
            /\ emergencyTimers' = emergencyTimers
            /\ callsMade' = callsMade
         \/ emergencyLevel \notin 2..3
         \/ ~LoopStops
      /\ emergencyLevel' \in 2..3 /\ callsMade'[ContactOf(emergencyLevel')] = 0
           => \E t \in CountdownTimers(emergencyTimers') :
                 t.contact = ContactOf(emergencyLevel') ]_vars

\* the system has been deactivated and put in privacy mode during a level 3
\* alert, and emergency services have been contacted all the same
C37_Witness ==
  /\ ~isActive /\ isPrivacyMode /\ Idle /\ loopTimers = {}
  /\ emergencyLevel = 3 /\ callsMade["911"] = 1

(* -------------------- escalation on a cached result --------------------- *)
\* the cycle c calls observeEnvironment without audio on a static scene and
\* is answered from the cache, no remote call being made
CachedCapture(c) ==
  /\ isOnline /\ ~InBackoff(St)
  /\ \E sc \in Scores, m \in BOOLEAN :
        /\ CacheHit(St, FALSE, sc)
        /\ CaptureDone(c, TRUE, FALSE, sc, m, FALSE)

\* C38: a cycle that is answered from the observation cache does not raise
\* the alert level
C38_CacheNeverEscalates ==
  [][ \A c \in Slots :
        \/ cycles'[c] = cycles[c]
        \/ emergencyLevel' <= emergencyLevel
        \/ ~CachedCapture(c) ]_vars

(* ------------------- slots held across the audio retry ------------------ *)
\* the running task i awaits a retry that is still in the queue
AwaitsQueued(i) ==
  /\ running[i].waiting
  /\ \E j \in 1..Len(taskQueue) :
        taskQueue[j].nested /\ taskQueue[j].owner = running[i].owner

\* C39: the gateway never has all its slots held by tasks that await a
\* retry still waiting in the queue
C39_NoRetryDeadlock ==
  ~( /\ activeRequests >= MAX_CONCURRENT_REQUESTS
     /\ \A i \in 1..Len(running) : AwaitsQueued(i) )

(* ------------------------- what the cache holds ------------------------- *)
\* C40: the observation cache changes only in a step in which the remote
\* call of an observe task succeeds, and it then holds the result of that
\* call stamped with the current time
C40_CacheOnlyRemote ==
  [][ \/ lastObservation' = lastObservation
      \/ \E i \in 1..Len(running), r \in ObserveResults, m \in BOOLEAN :
            /\ running[i].kind = "observe"
            /\ lastObservation' = [valid |-> TRUE, result |-> r, timestamp |-> now]
            /\ RemoteCallEnds(i, "ok", r, m, FALSE) ]_vars

\* the cache still holds the result stored at time 0 after a later call
\* has failed with a rate limit and cycles have been served the fallback
C40_Witness ==
  /\ lastObservation.valid /\ lastObservation.timestamp = 0
  /\ backoffUntil > BACKOFF_MS /\ InBackoff(St)
  /\ running = << >> /\ taskQueue = << >>
  /\ \A c \in Slots : cycles[c] = "idle"

====
